---- MODULE Spec2Model ----
(***************************************************************************)
(* A model of the log15 logger core: the Logger tree (logger.go), the      *)
(* package-level facade around the root logger (root.go) and the handler   *)
(* indirection ("swapHandler") that every logger writes through.           *)
(***************************************************************************)
EXTENDS Integers, Sequences, FiniteSets, TLC

VARIABLES
    workload,   \* the class of inputs the clients of this run use
    loggers,    \* sequence of logger structs {maxLvl, ctx, h}; loggers[1] is root
    swap,       \* swap[i]: the handler held by swapHandler object i
    count,      \* count[s]: records received by the concrete sink s
    th,         \* th[t]: the frame of client thread t (its one leveled call)
    hist,       \* hist[i]: how logger i was made and configured (history)
    nAdmin,     \* SetLevel/SetHandler calls made so far
    normIn,     \* argument list under normalization
    normOut,    \* result of normalize(normIn)
    normPc,     \* "in" before normalize has run, "out" after
    conv,       \* a level/string conversion: its inputs, position and results
    held        \* the handlers GetHandler returned, kept by the clients

vars == <<workload, loggers, swap, count, th, hist, nAdmin,
          normIn, normOut, normPc, conv, held>>

----------------------------------------------------------------------------
(* Bounds of the model *)

MaxLoggers == 3     \* loggers alive in a run, root included
NWriters == 2       \* client threads; each makes one leveled call
MaxAdmin == 2       \* SetLevel/SetHandler calls per run
NSinks == 2         \* concrete sinks: 1 is the initial one (StdoutHandler)
MaxArgLen == 3      \* longest argument list given to normalize

----------------------------------------------------------------------------
(* Levels: logger.go 19-25 *)

LvlCrit == 0
LvlError == 1
LvlWarn == 2
LvlInfo == 3
LvlDebug == 4

Lvls == {LvlCrit, LvlError, LvlWarn, LvlInfo, LvlDebug}

----------------------------------------------------------------------------
(* Values of type interface{} carried in a context.  A value is a string,  *)
(* nil, or a Ctx map (string keys to string values).                        *)

NoMap == <<>>

Str(s) == [t |-> "str", s |-> s, m |-> NoMap]
Nil == [t |-> "nil", s |-> "", m |-> NoMap]
CtxVal(m) == [t |-> "ctx", s |-> "", m |-> m]

errorKey == "LOG15_ERROR"
oddMsg == "Normalized odd number of arguments by adding nil"

isCtx(v) == v.t = "ctx"

\* the orders in which `range c` may visit the keys of a map
RangeOrders(m) ==
    LET K == DOMAIN m
    IN  {o \in [1..Cardinality(K) -> K] : \A i, j \in 1..Cardinality(K) : o[i] = o[j] => i = j}

\* the iteration orders the runtime may pick while normalizing ctx
IterOrders(ctx) ==
    IF Len(ctx) = 1 /\ isCtx(ctx[1]) THEN RangeOrders(ctx[1].m) ELSE {<<>>}

\* mutation of toArray: the index advances by one per entry instead of two
toArray_step1(c, ord) ==
    [i \in 1..(2 * Len(ord)) |->
        IF i <= Len(ord) THEN Str(ord[i]) ELSE Nil]

\* Ctx.toArray, the map visited in order ord: arr[i] = k, arr[i+1] = v, i += 2
toArray(c, ord) ==
    [i \in 1..(2 * Len(ord)) |->
        IF i % 2 = 1 THEN Str(ord[(i + 1) \div 2]) ELSE Str(c[ord[i \div 2]])]

\* mutation of normalize: only nil is appended to an odd list
normalize_noMarker(ctx, ord) ==
    LET c1 == IF Len(ctx) = 1 /\ isCtx(ctx[1]) THEN toArray(ctx[1].m, ord) ELSE ctx
    IN  IF Len(c1) % 2 # 0 THEN Append(c1, Nil) ELSE c1

\* normalize: expand a sole Ctx argument, then pad an odd list with the marker
normalize(ctx, ord) ==
    LET c1 == IF Len(ctx) = 1 /\ isCtx(ctx[1]) THEN toArray(ctx[1].m, ord) ELSE ctx
    IN  IF Len(c1) % 2 # 0
        THEN c1 \o <<Nil, Str(errorKey), Str(oddMsg)>>
        ELSE c1

\* mutation of newContext: the second copy starts at 0 and overwrites the prefix
newContext_overwrite(prefix, suffix, ord) ==
    LET normalizedSuffix == normalize(suffix, ord)
        n == Len(prefix)
    IN  [i \in 1..(n + Len(normalizedSuffix)) |->
            IF i <= Len(normalizedSuffix) THEN normalizedSuffix[i]
            ELSE IF i <= n THEN prefix[i] ELSE Nil]

\* mutation of newContext: the suffix is copied without being normalized
newContext_rawSuffix(prefix, suffix, ord) ==
    [i \in 1..(Len(prefix) + Len(suffix)) |->
        IF i <= Len(prefix) THEN prefix[i] ELSE suffix[i - Len(prefix)]]

\* make(len(prefix)+len(normalizedSuffix)); copy prefix; copy the suffix after it
newContext(prefix, suffix, ord) ==
    LET normalizedSuffix == normalize(suffix, ord)
        n == Len(prefix)
    IN  [i \in 1..(n + Len(normalizedSuffix)) |->
            IF i <= n THEN prefix[i] ELSE normalizedSuffix[i - n]]

----------------------------------------------------------------------------
(* Handlers.  A Handler value is a concrete sink, a swapHandler object      *)
(* (which is itself a Handler), or nil.                                     *)

Sinks == 1..NSinks
StdoutHandler == 1

Sink(s) == [kind |-> "sink", id |-> s]
SwapH(i) == [kind |-> "swap", id |-> i]
NilH == [kind |-> "nil", id |-> 0]

\* swapHandler.Get: the handler currently installed
Get(i) == swap[i]

\* swapHandler.Swap: install newHandler
Swap(i, newHandler) == [swap EXCEPT ![i] = newHandler]

\* the concrete sink that a record handed to h reaches if no swap intervenes
RECURSIVE Follow(_, _)
Follow(h, fuel) ==
    IF h.kind # "swap" THEN h
    ELSE IF fuel = 0 THEN NilH ELSE Follow(swap[h.id], fuel - 1)

Target(l) == Follow(SwapH(loggers[l].h), Len(swap))

----------------------------------------------------------------------------
(* Loggers *)

root == 1

LoggerIds == 1..Len(loggers)

\* logger.GetHandler: l.h.Get()
GetHandler(l) == Get(loggers[l].h)

\* the backing array of a slice made by the n-th run of `by`; make allocates
\* a new one on every call
Alloc(by, n) == [by |-> by, n |-> n]

NoArr == Alloc("", 0)

NoRec == [Lvl |-> -1, Ctx |-> <<>>, Call |-> "", CtxArr |-> NoArr]

\* stack.Caller(skip) called in the innermost frame of stk: the frame skip
\* levels above the one that calls it
Caller(stk, skip) == IF Len(stk) > skip THEN stk[Len(stk) - skip] ELSE ""

Idle == [pc |-> "idle", rec |-> NoRec, at |-> NilH,
         entry |-> "", l |-> 0, args |-> <<>>, lvl |-> -1, gateMax |-> -1,
         lastSet |-> -1,
         handed |-> FALSE, sink |-> 0, nDeliv |-> 0, stale |-> FALSE,
         logErr |-> FALSE, afterFail |-> FALSE, stack |-> <<>>, tid |-> 0]

\* mutation of write: the gate is strict, a record at the floor itself is dropped
write_strict(f, l, lvl, ctx, ord) ==
    IF lvl < loggers[l].maxLvl
    THEN [f EXCEPT !.pc = "log",
                   !.rec = [Lvl |-> lvl, Ctx |-> newContext(loggers[l].ctx, ctx, ord),
                            Call |-> Caller(Append(f.stack, "write"), 2),
                            CtxArr |-> Alloc("write", f.tid)],
                   !.at = SwapH(loggers[l].h)]
    ELSE [f EXCEPT !.pc = "ret"]

\* mutation of write: the comparison of the gate is reversed
write_inverted(f, l, lvl, ctx, ord) ==
    IF lvl >= loggers[l].maxLvl
    THEN [f EXCEPT !.pc = "log",
                   !.rec = [Lvl |-> lvl, Ctx |-> newContext(loggers[l].ctx, ctx, ord),
                            Call |-> Caller(Append(f.stack, "write"), 2),
                            CtxArr |-> Alloc("write", f.tid)],
                   !.at = SwapH(loggers[l].h)]
    ELSE [f EXCEPT !.pc = "ret"]

\* logger.write up to the call of l.h.Log: the frame of the calling thread
\* after the level gate; the record built is about to be logged to l.h
write(f, l, lvl, ctx, ord) ==
    IF lvl <= loggers[l].maxLvl
    THEN [f EXCEPT !.pc = "log",
                   !.rec = [Lvl |-> lvl, Ctx |-> newContext(loggers[l].ctx, ctx, ord),
                            Call |-> Caller(Append(f.stack, "write"), 2),
                            CtxArr |-> Alloc("write", f.tid)],
                   !.at = SwapH(loggers[l].h)]
    ELSE [f EXCEPT !.pc = "ret"]

----------------------------------------------------------------------------
(* The inputs of a run.  A run varies the level of the root logger under    *)
(* every leveled entry point ("level"), or the levels of derived loggers    *)
(* ("derive"), or the contexts ("context"), or the installed handlers, with *)
(* one writer ("handler") or with concurrent writers ("race"), or lets the  *)
(* installed handler fail ("fail"), or passes interpolation arguments to    *)
(* the formatted variants of loggers that hold a context ("format"), or     *)
(* sets levels in a tree of loggers with siblings and grandchildren         *)
(* ("isolate").                                                             *)

Workloads == {"level", "derive", "context", "handler", "race", "fail", "format",
              "isolate"}

Threads == 1..NWriters

ThreadsOf(w) == IF w \in {"race", "fail"} THEN Threads ELSE {1}

LoggerMethods == {"Debug", "Debugf", "Info", "Infof", "Warn", "Warnf",
                  "Error", "Errorf", "Crit", "Critf", "Panic", "Panicf"}
PkgFunctions == {"pkg.Debug", "pkg.Debugf", "pkg.Info", "pkg.Infof", "pkg.Warn",
                 "pkg.Warnf", "pkg.Error", "pkg.Errorf", "pkg.Crit", "pkg.Critf",
                 "pkg.Panic", "pkg.Panicf"}
PanicEntries == {"Panic", "Panicf", "pkg.Panic", "pkg.Panicf"}
Formatted == {"Debugf", "Infof", "Warnf", "Errorf", "Critf", "Panicf",
              "pkg.Debugf", "pkg.Infof", "pkg.Warnf", "pkg.Errorf", "pkg.Critf",
              "pkg.Panicf"}

EntriesOf(w) ==
    CASE w = "level" -> LoggerMethods \cup PkgFunctions
      [] w = "derive" -> {"Warn", "Error", "Panic"}
      [] w = "context" -> {"Debug", "Debugf", "pkg.Debug", "pkg.Debugf"}
      [] w \in {"handler", "race", "chain"} -> {"Info"}
      [] w = "format" -> Formatted
      [] w = "fail" -> {"Debug", "Errorf", "Crit", "pkg.Info", "pkg.Warnf", "pkg.Crit"}
      [] w = "isolate" -> {}

CtxAB == [k \in {"a", "b"} |-> IF k = "a" THEN "1" ELSE "2"]

\* argument lists the clients pass as context
CallArgs == {<<>>, <<Str("a"), Str("1")>>, <<Str("b"), Str("2")>>, <<Str("k")>>,
             <<CtxVal(CtxAB)>>}

ArgsOf(w) == IF w \in {"context", "format"} THEN CallArgs ELSE {<<>>}

\* the lvl arguments given to New, the levels given to SetLevel and NewWithLvl
NewLvlsOf(w) == IF w = "derive" THEN Lvls ELSE {0}
SetLvlsOf(w) == IF w \in {"level", "derive", "isolate"} THEN Lvls ELSE {}

\* the handlers given to SetHandler: concrete sinks, and in "chain" also what
\* GetHandler of a logger returns
SetHandlersOf(w) ==
    CASE w \in {"handler", "race"} -> {Sink(s) : s \in Sinks}
      [] w = "chain" -> {Sink(s) : s \in Sinks} \cup {SwapH(i) : i \in 1..MaxLoggers}
      [] OTHER -> {}

\* how many SetLevel and SetHandler calls a run makes
AdminOf(w) == IF w = "chain" THEN MaxAdmin + 1 ELSE MaxAdmin

\* whether Log of a concrete sink may return an error
FailsOf(w) == IF w = "fail" THEN BOOLEAN ELSE {FALSE}

\* how many loggers a run holds, root included
LoggersOf(w) ==
    CASE w = "level" -> 1
      [] w \in {"derive", "race", "fail", "format"} -> MaxLoggers - 1
      [] w = "isolate" -> MaxLoggers + 2
      [] OTHER -> MaxLoggers

----------------------------------------------------------------------------
(* Construction: root.go init.  root = &logger{LvlDebug, {}, new(swapHandler)} *)
(* and root.SetHandler(StdoutHandler).                                      *)

ConvOff == [pc |-> "off", lvl |-> -1, str |-> "", outStr |-> "", outLvl |-> -1,
            outErr |-> FALSE]

NormIdle == /\ normIn = <<>>
            /\ normOut = <<>>
            /\ normPc = "off"
            /\ conv = ConvOff
            /\ held = {}

Init ==
    /\ workload \in Workloads
    /\ loggers = <<[maxLvl |-> LvlDebug, ctx |-> <<>>, h |-> 1, ctxArr |-> Alloc("init", root)]>>
    /\ swap = <<Sink(StdoutHandler)>>
    /\ count = [s \in Sinks |-> 0]
    /\ th = [t \in Threads |-> Idle]
    /\ hist = <<[parent |-> 0, args |-> <<>>, lvlArg |-> -1, parentLvl |-> -1,
                 via |-> "init", ownSet |-> TRUE, atDerive |-> NilH,
                 lastSet |-> -1, lastH |-> Sink(StdoutHandler)]>>
    /\ nAdmin = 0
    /\ NormIdle

----------------------------------------------------------------------------
(* Leveled calls.  Enter is the body shared by the leveled methods: the     *)
(* caller's thread t enters `entry` on logger l with arguments args, and    *)
(* the method calls l.write(msg, lvl, ctx).  EnterVia names the frames that *)
(* lie between the client and write; the entry points call write themselves.*)

EnterVia(t, entry, frames, l, args, lvl, ctx) ==
    /\ t \in ThreadsOf(workload)
    /\ entry \in EntriesOf(workload)
    /\ args \in ArgsOf(workload)
    /\ l \in LoggerIds
    /\ th[t].pc = "idle"
    /\ \A u \in Threads : u < t => th[u].pc # "idle"  \* threads are numbered as they call
    /\ \E ord \in IterOrders(ctx) :
          LET f0 == [Idle EXCEPT !.entry = entry, !.l = l, !.args = args,
                                 !.lvl = lvl, !.gateMax = loggers[l].maxLvl,
                                 !.lastSet = hist[l].lastSet,
                                 !.stack = <<"client">> \o frames, !.tid = t,
                                 !.afterFail = \E u \in Threads :
                                     th[u].pc = "done" /\ th[u].logErr]
              f1 == write(f0, l, lvl, ctx, ord)
          IN  th' = [th EXCEPT ![t] = [f1 EXCEPT !.handed = (f1.pc = "log")]]
    /\ UNCHANGED <<workload, loggers, swap, count, hist, nAdmin, normIn, normOut, normPc, conv, held>>

Enter(t, entry, l, args, lvl, ctx) == EnterVia(t, entry, <<entry>>, l, args, lvl, ctx)

emptyCtx == <<>>

Debug(t, l, ctx) == Enter(t, "Debug", l, ctx, LvlDebug, ctx)
\* mutation of Debugf: the interpolation arguments are passed on as context
Debugf_passArgs(t, l, args) == Enter(t, "Debugf", l, args, LvlDebug, args)

Debugf(t, l, args) == Enter(t, "Debugf", l, args, LvlDebug, emptyCtx)
Info(t, l, ctx) == Enter(t, "Info", l, ctx, LvlInfo, ctx)
Infof(t, l, args) == Enter(t, "Infof", l, args, LvlInfo, emptyCtx)
Warn(t, l, ctx) == Enter(t, "Warn", l, ctx, LvlWarn, ctx)
Warnf(t, l, args) == Enter(t, "Warnf", l, args, LvlWarn, emptyCtx)
Error(t, l, ctx) == Enter(t, "Error", l, ctx, LvlError, ctx)
Errorf(t, l, args) == Enter(t, "Errorf", l, args, LvlError, emptyCtx)
Crit(t, l, ctx) == Enter(t, "Crit", l, ctx, LvlCrit, ctx)
Critf(t, l, args) == Enter(t, "Critf", l, args, LvlCrit, emptyCtx)
\* mutation of Panic: the record is written at Error level
Panic_errLvl(t, l, ctx) == Enter(t, "Panic", l, ctx, LvlError, ctx)

Panic(t, l, ctx) == Enter(t, "Panic", l, ctx, LvlCrit, ctx)
Panicf(t, l, args) == Enter(t, "Panicf", l, args, LvlCrit, emptyCtx)

\* mutation of the package-level Debug: it forwards to the method root.Debug
PkgDebug_viaMethod(t, ctx) ==
    EnterVia(t, "pkg.Debug", <<"pkg.Debug", "Debug">>, root, ctx, LvlDebug, ctx)

PkgDebug(t, ctx) == Enter(t, "pkg.Debug", root, ctx, LvlDebug, ctx)
PkgDebugf(t, args) == Enter(t, "pkg.Debugf", root, args, LvlDebug, emptyCtx)
PkgInfo(t, ctx) == Enter(t, "pkg.Info", root, ctx, LvlInfo, ctx)
PkgInfof(t, args) == Enter(t, "pkg.Infof", root, args, LvlInfo, emptyCtx)
PkgWarn(t, ctx) == Enter(t, "pkg.Warn", root, ctx, LvlWarn, ctx)
PkgWarnf(t, args) == Enter(t, "pkg.Warnf", root, args, LvlWarn, emptyCtx)
PkgError(t, ctx) == Enter(t, "pkg.Error", root, ctx, LvlError, ctx)
PkgErrorf(t, args) == Enter(t, "pkg.Errorf", root, args, LvlError, emptyCtx)
PkgCrit(t, ctx) == Enter(t, "pkg.Crit", root, ctx, LvlCrit, ctx)
PkgCritf(t, args) == Enter(t, "pkg.Critf", root, args, LvlCrit, emptyCtx)
PkgPanic(t, ctx) == Enter(t, "pkg.Panic", root, ctx, LvlCrit, ctx)
PkgPanicf(t, args) == Enter(t, "pkg.Panicf", root, args, LvlCrit, emptyCtx)

ThreadFrame == <<workload, loggers, swap, hist, nAdmin,
                 normIn, normOut, normPc, conv, held>>

\* swapHandler.Log: load the installed handler and call its Log
SwapLog(t) ==
    /\ th[t].pc = "log"
    /\ th[t].at.kind = "swap"
    /\ th' = [th EXCEPT ![t].at = Get(th[t].at.id)]
    /\ UNCHANGED count
    /\ UNCHANGED ThreadFrame

\* mutation of afterLog: an error of the handler aborts the caller
afterLog_panic(f, err) ==
    [f EXCEPT !.pc = IF err THEN "panicked" ELSE "ret", !.logErr = err]

\* logger.write after l.h.Log(...) returned err: the result of the call is
\* dropped and write returns; logErr keeps what the handler returned
afterLog(f, err) == [f EXCEPT !.pc = "ret", !.logErr = err]

\* Log of a concrete sink: the record is received, and Log returns an error
\* or none; Log of nil: nothing is received.  The indirections hand the
\* result back to logger.write.
SinkLog(t) ==
    /\ th[t].pc = "log"
    /\ th[t].at.kind # "swap"
    /\ IF th[t].at.kind = "sink"
       THEN /\ count' = [count EXCEPT ![th[t].at.id] = @ + 1]
            /\ \E err \in FailsOf(workload) :
                  th' = [th EXCEPT ![t] = afterLog([th[t] EXCEPT !.sink = th[t].at.id,
                                                                !.nDeliv = @ + 1], err)]
       ELSE /\ count' = count
            /\ th' = [th EXCEPT ![t] = afterLog(th[t], FALSE)]
    /\ UNCHANGED ThreadFrame

\* a leveled method other than the panic ones returns to its caller
Return(t) ==
    /\ th[t].pc = "ret"
    /\ th[t].entry \notin PanicEntries
    /\ th' = [th EXCEPT ![t].pc = "done"]
    /\ UNCHANGED count
    /\ UNCHANGED ThreadFrame

\* logger.Panic, logger.Panicf after write: time.Sleep(10)
PanicSleep(t) ==
    /\ th[t].pc = "ret"
    /\ th[t].entry \in {"Panic", "Panicf"}
    /\ th' = [th EXCEPT ![t].pc = "sleep"]
    /\ UNCHANGED count
    /\ UNCHANGED ThreadFrame

\* panic(...) of the panic methods and of the package-level Panic, Panicf
PanicRaise(t) ==
    /\ \/ th[t].pc = "sleep"
       \/ th[t].pc = "ret" /\ th[t].entry \in {"pkg.Panic", "pkg.Panicf"}
    /\ th' = [th EXCEPT ![t].pc = "panicked"]
    /\ UNCHANGED count
    /\ UNCHANGED ThreadFrame

----------------------------------------------------------------------------
(* Derivation and configuration *)

\* mutation of New: the child's handler is the handler installed on the parent
newHandler_copy(l) == Get(loggers[l].h)

\* logger.New, line 138: child.SetHandler(l.h); the child's indirection holds
\* the parent's indirection object
newHandler(l) == SwapH(loggers[l].h)

\* mutation of New: the context is append(l.ctx, normalize(ctx)...), which
\* returns the parent's slice when nothing is appended
newChild_append(l, lvl, ctx, ord) ==
    [maxLvl |-> IF lvl = 0 THEN loggers[l].maxLvl ELSE lvl,
     ctx |-> loggers[l].ctx \o normalize(ctx, ord),
     h |-> Len(swap) + 1,
     ctxArr |-> IF normalize(ctx, ord) = <<>> THEN loggers[l].ctxArr
                ELSE Alloc("New", Len(loggers) + 1)]

\* logger.New, lines 134-137: the child struct
newChild(l, lvl, ctx, ord) ==
    [maxLvl |-> IF lvl = 0 THEN loggers[l].maxLvl ELSE lvl,
     ctx |-> newContext(loggers[l].ctx, ctx, ord),
     h |-> Len(swap) + 1,
     ctxArr |-> Alloc("New", Len(loggers) + 1)]

\* the history entry of a logger derived from l
Derived(l, ctx, lvlArg, via) ==
    [parent |-> l, args |-> ctx, lvlArg |-> lvlArg, parentLvl |-> loggers[l].maxLvl,
     via |-> via, ownSet |-> FALSE, atDerive |-> Target(l),
     lastSet |-> -1, lastH |-> NilH]

Unthreaded == <<workload, count, th, nAdmin, normIn, normOut, normPc, conv, held>>

\* logger.New(lvl, ctx...)
New(l, lvl, ctx) ==
    /\ l \in LoggerIds
    /\ Len(loggers) < LoggersOf(workload)
    /\ lvl \in NewLvlsOf(workload)
    /\ ctx \in ArgsOf(workload)
    /\ \E ord \in IterOrders(ctx) :
          loggers' = Append(loggers, newChild(l, lvl, ctx, ord))
    /\ swap' = Append(swap, newHandler(l))
    /\ hist' = Append(hist, Derived(l, ctx, lvl, "New"))
    /\ UNCHANGED Unthreaded

\* The package-level New and NewWithLvl of root.go call root.New(ctx...)
\* without the lvl argument that logger.New requires.  Whatever lvl the call
\* is completed with, the SetLevel that follows overwrites the child's level
\* before the logger is returned, so lvl0 ranges over every level.  The
\* logger is local to the function until it returns: the two calls are one
\* step, and the SetLevel is recorded as the one last made on the child.
PkgDerive(lvl0, maxLvl, ctx, via) ==
    /\ Len(loggers) < LoggersOf(workload)
    /\ ctx \in ArgsOf(workload)
    /\ nAdmin < AdminOf(workload)
    /\ \E ord \in IterOrders(ctx) :
          loggers' = Append(loggers,
                [newChild(root, lvl0, ctx, ord) EXCEPT !.maxLvl = maxLvl])
    /\ swap' = Append(swap, newHandler(root))
    /\ hist' = Append(hist, [Derived(root, ctx, -1, via) EXCEPT !.lastSet = maxLvl])
    /\ nAdmin' = nAdmin + 1
    /\ UNCHANGED <<workload, count, th, normIn, normOut, normPc, conv, held>>

\* package-level New(ctx...): l := root.New(ctx...); l.SetLevel(root.maxLvl)
PkgNew(ctx) == \E lvl0 \in Lvls : PkgDerive(lvl0, loggers[root].maxLvl, ctx, "pkg.New")

\* NewWithLvl(maxLvl, ctx...): l := root.New(ctx...); l.SetLevel(maxLvl)
NewWithLvl(maxLvl, ctx) ==
    /\ maxLvl \in SetLvlsOf(workload)
    /\ \E lvl0 \in Lvls : PkgDerive(lvl0, maxLvl, ctx, "NewWithLvl")

\* mutation of SetLevel: the level is stored on the root logger
SetLevel_onRoot(l, maxLvl) ==
    /\ l \in LoggerIds
    /\ maxLvl \in SetLvlsOf(workload)
    /\ nAdmin < MaxAdmin
    /\ loggers' = [loggers EXCEPT ![root].maxLvl = maxLvl]
    /\ hist' = [hist EXCEPT ![l].lastSet = maxLvl]
    /\ nAdmin' = nAdmin + 1
    /\ UNCHANGED <<workload, swap, count, th, normIn, normOut, normPc, conv, held>>

\* mutation of SetLevel: the level is also stored on the loggers derived from l
SetLevel_propagate(l, maxLvl) ==
    /\ l \in LoggerIds
    /\ maxLvl \in SetLvlsOf(workload)
    /\ nAdmin < MaxAdmin
    /\ loggers' = [i \in DOMAIN loggers |->
                      IF i = l \/ hist[i].parent = l
                      THEN [loggers[i] EXCEPT !.maxLvl = maxLvl] ELSE loggers[i]]
    /\ hist' = [hist EXCEPT ![l].lastSet = maxLvl]
    /\ nAdmin' = nAdmin + 1
    /\ UNCHANGED <<workload, swap, count, th, normIn, normOut, normPc, conv, held>>

\* logger.SetLevel(maxLvl): l.maxLvl = maxLvl
SetLevel(l, maxLvl) ==
    /\ l \in LoggerIds
    /\ maxLvl \in SetLvlsOf(workload)
    /\ nAdmin < MaxAdmin
    /\ loggers' = [loggers EXCEPT ![l].maxLvl = maxLvl]
    /\ hist' = [hist EXCEPT ![l].lastSet = maxLvl]
    /\ nAdmin' = nAdmin + 1
    /\ UNCHANGED <<workload, swap, count, th, normIn, normOut, normPc, conv, held>>

\* package-level SetLevel(maxLvl): root.SetLevel(maxLvl)
PkgSetLevel(maxLvl) == SetLevel(root, maxLvl)

\* mutation of SetHandler: the logger takes a fresh indirection holding h
SetHandler_fresh(l, h) ==
    /\ l \in LoggerIds
    /\ h \in SetHandlersOf(workload)
    /\ nAdmin < AdminOf(workload)
    /\ swap' = Append(swap, h)
    /\ loggers' = [loggers EXCEPT ![l].h = Len(swap) + 1]
    /\ hist' = [hist EXCEPT ![l].ownSet = TRUE, ![l].lastH = h]
    /\ th' = [t \in Threads |->
                IF th[t].pc = "idle" THEN th[t] ELSE [th[t] EXCEPT !.stale = TRUE]]
    /\ nAdmin' = nAdmin + 1
    /\ UNCHANGED <<workload, count, normIn, normOut, normPc, conv, held>>

\* logger.SetHandler(h): l.h.Swap(h).  Calls in progress are marked as having
\* overlapped a swap.
SetHandler(l, h) ==
    /\ l \in LoggerIds
    /\ h \in SetHandlersOf(workload)
    /\ nAdmin < AdminOf(workload)
    /\ swap' = Swap(loggers[l].h, h)
    /\ hist' = [hist EXCEPT ![l].ownSet = TRUE, ![l].lastH = h]
    /\ th' = [t \in Threads |->
                IF th[t].pc = "idle" THEN th[t] ELSE [th[t] EXCEPT !.stale = TRUE]]
    /\ nAdmin' = nAdmin + 1
    /\ UNCHANGED <<workload, loggers, count, normIn, normOut, normPc, conv, held>>

\* v := l.GetHandler(): the client keeps the value returned
CallGetHandler(l) ==
    /\ workload = "chain"
    /\ l \in LoggerIds
    /\ held' = held \cup {GetHandler(l)}
    /\ UNCHANGED <<workload, loggers, swap, count, th, hist, nAdmin,
                   normIn, normOut, normPc, conv>>

\* l.SetHandler(v) of a value v that an earlier GetHandler returned
SetHandlerHeld(l, v) ==
    /\ v \in held
    /\ SetHandler(l, v)

----------------------------------------------------------------------------

Next ==
    \/ \E t \in Threads, l \in LoggerIds, a \in CallArgs :
          \/ Debug(t, l, a) \/ Debugf(t, l, a)
          \/ Info(t, l, a) \/ Infof(t, l, a)
          \/ Warn(t, l, a) \/ Warnf(t, l, a)
          \/ Error(t, l, a) \/ Errorf(t, l, a)
          \/ Crit(t, l, a) \/ Critf(t, l, a)
          \/ Panic(t, l, a) \/ Panicf(t, l, a)
    \/ \E t \in Threads, a \in CallArgs :
          \/ PkgDebug(t, a) \/ PkgDebugf(t, a)
          \/ PkgInfo(t, a) \/ PkgInfof(t, a)
          \/ PkgWarn(t, a) \/ PkgWarnf(t, a)
          \/ PkgError(t, a) \/ PkgErrorf(t, a)
          \/ PkgCrit(t, a) \/ PkgCritf(t, a)
          \/ PkgPanic(t, a) \/ PkgPanicf(t, a)
    \/ \E t \in Threads :
          SwapLog(t) \/ SinkLog(t) \/ Return(t) \/ PanicSleep(t) \/ PanicRaise(t)
    \/ \E l \in LoggerIds, lvl \in Lvls, a \in CallArgs : New(l, lvl, a)
    \/ \E a \in CallArgs : PkgNew(a)
    \/ \E lvl \in Lvls, a \in CallArgs : NewWithLvl(lvl, a)
    \/ \E l \in LoggerIds, lvl \in Lvls : SetLevel(l, lvl)
    \/ \E lvl \in Lvls : PkgSetLevel(lvl)
    \/ \E l \in LoggerIds, s \in Sinks : SetHandler(l, Sink(s))

Spec == Init /\ [][Next]_vars

----------------------------------------------------------------------------
(* Handlers read from one logger and installed on another *)

InitChain ==
    /\ workload = "chain"
    /\ loggers = <<[maxLvl |-> LvlDebug, ctx |-> <<>>, h |-> 1, ctxArr |-> Alloc("init", root)]>>
    /\ swap = <<Sink(StdoutHandler)>>
    /\ count = [s \in Sinks |-> 0]
    /\ th = [t \in Threads |-> Idle]
    /\ hist = <<[parent |-> 0, args |-> <<>>, lvlArg |-> -1, parentLvl |-> -1,
                 via |-> "init", ownSet |-> TRUE, atDerive |-> NilH,
                 lastSet |-> -1, lastH |-> Sink(StdoutHandler)]>>
    /\ nAdmin = 0
    /\ NormIdle

NextChain ==
    \/ \E t \in Threads, l \in LoggerIds : Info(t, l, <<>>)
    \/ \E t \in Threads : SwapLog(t) \/ SinkLog(t) \/ Return(t)
    \/ \E l \in LoggerIds : New(l, 0, <<>>)
    \/ \E l \in LoggerIds, s \in Sinks : SetHandler(l, Sink(s))
    \/ \E l \in LoggerIds : CallGetHandler(l)
    \/ \E l \in LoggerIds, v \in held : SetHandlerHeld(l, v)

SpecChain == InitChain /\ [][NextChain]_vars

----------------------------------------------------------------------------
(* normalize as a function of its argument list *)

NormElems == {Str("a"), Nil, CtxVal(<<>>), CtxVal([k \in {"a"} |-> "1"]), CtxVal(CtxAB)}

RECURSIVE SeqsUpTo(_, _)
SeqsUpTo(S, n) ==
    IF n = 0 THEN {<<>>}
    ELSE LET shorter == SeqsUpTo(S, n - 1)
         IN  shorter \cup {Append(q, e) : q \in {x \in shorter : Len(x) = n - 1}, e \in S}

ArgLists == SeqsUpTo(NormElems, MaxArgLen)

InitNorm ==
    /\ workload = "normalize"
    /\ loggers = <<[maxLvl |-> LvlDebug, ctx |-> <<>>, h |-> 1, ctxArr |-> Alloc("init", root)]>>
    /\ swap = <<Sink(StdoutHandler)>>
    /\ count = [s \in Sinks |-> 0]
    /\ th = [t \in Threads |-> Idle]
    /\ hist = <<[parent |-> 0, args |-> <<>>, lvlArg |-> -1, parentLvl |-> -1,
                 via |-> "init", ownSet |-> TRUE, atDerive |-> NilH,
                 lastSet |-> -1, lastH |-> Sink(StdoutHandler)]>>
    /\ nAdmin = 0
    /\ normIn \in ArgLists
    /\ normOut = <<>>
    /\ normPc = "in"
    /\ conv = ConvOff
    /\ held = {}

Normalize ==
    /\ normPc = "in"
    /\ \E ord \in IterOrders(normIn) : normOut' = normalize(normIn, ord)
    /\ normPc' = "out"
    /\ UNCHANGED <<workload, loggers, swap, count, th, hist, nAdmin, normIn, conv, held>>

NextNorm == Normalize

SpecNorm == InitNorm /\ [][NextNorm]_vars

----------------------------------------------------------------------------
(* Level names: Lvl.String and LvlFromString *)

\* Lvl.String
String(l) ==
    CASE l = LvlDebug -> "dbug"
      [] l = LvlInfo -> "info"
      [] l = LvlWarn -> "warn"
      [] l = LvlError -> "eror"
      [] l = LvlCrit -> "crit"
      [] OTHER -> "panic: bad level"

\* mutation of LvlFromString: an unknown name is taken as Debug, without error
LvlFromString_lenient(lvlString) ==
    CASE lvlString \in {"debug", "dbug"} -> [lvl |-> LvlDebug, err |-> FALSE]
      [] lvlString = "info" -> [lvl |-> LvlInfo, err |-> FALSE]
      [] lvlString = "warn" -> [lvl |-> LvlWarn, err |-> FALSE]
      [] lvlString \in {"error", "eror"} -> [lvl |-> LvlError, err |-> FALSE]
      [] lvlString = "crit" -> [lvl |-> LvlCrit, err |-> FALSE]
      [] OTHER -> [lvl |-> LvlDebug, err |-> FALSE]

\* LvlFromString: the level and whether an error is returned
LvlFromString(lvlString) ==
    CASE lvlString \in {"debug", "dbug"} -> [lvl |-> LvlDebug, err |-> FALSE]
      [] lvlString = "info" -> [lvl |-> LvlInfo, err |-> FALSE]
      [] lvlString = "warn" -> [lvl |-> LvlWarn, err |-> FALSE]
      [] lvlString \in {"error", "eror"} -> [lvl |-> LvlError, err |-> FALSE]
      [] lvlString = "crit" -> [lvl |-> LvlCrit, err |-> FALSE]
      [] OTHER -> [lvl |-> LvlDebug, err |-> TRUE]

\* the strings given to LvlFromString
LvlStrings == {"dbug", "debug", "info", "warn", "eror", "error", "crit",
               "", "DEBUG", "Info", "warning", "err", "critical", "trace", "4"}

InitLvl ==
    /\ workload = "lvlnames"
    /\ loggers = <<[maxLvl |-> LvlDebug, ctx |-> <<>>, h |-> 1, ctxArr |-> Alloc("init", root)]>>
    /\ swap = <<Sink(StdoutHandler)>>
    /\ count = [s \in Sinks |-> 0]
    /\ th = [t \in Threads |-> Idle]
    /\ hist = <<[parent |-> 0, args |-> <<>>, lvlArg |-> -1, parentLvl |-> -1,
                 via |-> "init", ownSet |-> TRUE, atDerive |-> NilH,
                 lastSet |-> -1, lastH |-> Sink(StdoutHandler)]>>
    /\ nAdmin = 0
    /\ normIn = <<>>
    /\ normOut = <<>>
    /\ normPc = "off"
    /\ \E l \in Lvls, str \in LvlStrings :
          conv = [ConvOff EXCEPT !.pc = "in", !.lvl = l, !.str = str]
    /\ held = {}

ConvFrame == <<workload, loggers, swap, count, th, hist, nAdmin, normIn, normOut, normPc,
               held>>

\* s := conv.lvl.String()
NameLevel ==
    /\ conv.pc = "in"
    /\ conv' = [conv EXCEPT !.pc = "named", !.outStr = String(conv.lvl)]
    /\ UNCHANGED ConvFrame

\* LvlFromString(s) of the name String gave
ParseBack ==
    /\ conv.pc = "named"
    /\ LET r == LvlFromString(conv.outStr)
       IN  conv' = [conv EXCEPT !.pc = "back", !.outLvl = r.lvl, !.outErr = r.err]
    /\ UNCHANGED ConvFrame

\* LvlFromString(conv.str)
Parse ==
    /\ conv.pc = "in"
    /\ LET r == LvlFromString(conv.str)
       IN  conv' = [conv EXCEPT !.pc = "parsed", !.outLvl = r.lvl, !.outErr = r.err]
    /\ UNCHANGED ConvFrame

NextLvl == NameLevel \/ ParseBack \/ Parse

SpecLvl == InitLvl /\ [][NextLvl]_vars

----------------------------------------------------------------------------
(* Properties *)

\* the level each leveled entry point stands for
LevelOfEntry(e) ==
    CASE e \in {"Debug", "Debugf", "pkg.Debug", "pkg.Debugf"} -> LvlDebug
      [] e \in {"Info", "Infof", "pkg.Info", "pkg.Infof"} -> LvlInfo
      [] e \in {"Warn", "Warnf", "pkg.Warn", "pkg.Warnf"} -> LvlWarn
      [] e \in {"Error", "Errorf", "pkg.Error", "pkg.Errorf"} -> LvlError
      [] OTHER -> LvlCrit

\* the write of thread t has returned
Written(t) == th[t].pc \in {"ret", "done", "sleep", "panicked"}

RECURSIVE Received(_)
Received(n) == IF n = 0 THEN 0 ELSE count[n] + Received(n - 1)

\* the nearest logger, from c upwards, whose handler was installed by SetHandler
RECURSIVE Owner(_)
Owner(c) == IF hist[c].ownSet THEN c ELSE Owner(hist[c].parent)

\* C1: a write at level L on a logger whose maxLevel is M hands a record to the
\* handler indirection exactly when L <= M.
C1_LevelGate ==
    \A t \in Threads :
        th[t].pc # "idle" => (th[t].handed <=> th[t].lvl <= th[t].gateMax)

\* a write at Info on a logger whose maxLevel is Warn has returned and no sink
\* has received a record
C1_Witness ==
    \E t \in Threads :
        /\ th[t].pc = "done"
        /\ th[t].gateMax = LvlWarn
        /\ th[t].lvl = LvlInfo
        /\ ~th[t].handed
        /\ Received(NSinks) = 0

\* C2: with writers concurrent with a SetHandler, every record is delivered to
\* exactly one sink: the sinks together hold one record per write that passed
\* the gate and has returned, and none for a write still in the handler chain.
C2_ExactlyOnce ==
    /\ \A t \in Threads :
          /\ Written(t) /\ th[t].lvl <= th[t].gateMax => th[t].nDeliv = 1
          /\ ~Written(t) => th[t].nDeliv = 0
    /\ Received(NSinks) =
          Cardinality({t \in Threads : Written(t) /\ th[t].lvl <= th[t].gateMax})

\* two writers have returned, a swap overlapped a write, and each of the two
\* sinks holds one record
C2_Witness ==
    /\ workload = "race"
    /\ \A t \in Threads : th[t].pc = "done"
    /\ \E t \in Threads : th[t].stale
    /\ count[1] = 1
    /\ count[NSinks] = 1
    /\ NSinks > 1

\* C3: a write on a logger whose own handler was never set, not overlapped by a
\* swap, is delivered to the handler last installed on its nearest ancestor
\* that had one installed.
C3_AncestorSwapVisible ==
    \A t \in Threads :
        Written(t) /\ th[t].handed /\ ~th[t].stale
            => Sink(th[t].sink) = hist[Owner(th[t].l)].lastH

\* a child derived while the parent held sink 1 writes, after the parent was
\* given sink 2, and the record reaches sink 2
C3_Witness ==
    \E t \in Threads :
        /\ th[t].pc = "done"
        /\ ~th[t].stale
        /\ th[t].l # root
        /\ ~hist[th[t].l].ownSet
        /\ hist[th[t].l].atDerive = Sink(1)
        /\ hist[hist[th[t].l].parent].lastH = Sink(2)
        /\ th[t].sink = 2

\* C4 as stated: a write on a child whose own handler was never set is
\* delivered to the handler its parent had when the child was derived.
C4_CopyAtDerivation ==
    \A t \in Threads :
        Written(t) /\ th[t].handed /\ ~th[t].stale
          /\ th[t].l # root /\ ~hist[th[t].l].ownSet
            => Sink(th[t].sink) = hist[th[t].l].atDerive

\* C4, amended: the indirection of a derived logger whose own handler was never
\* set holds its parent's indirection object, and so leads to the sink the
\* parent's indirection leads to.
C4_SharedIndirection ==
    \A c \in LoggerIds :
        c # root /\ ~hist[c].ownSet
            => /\ GetHandler(c) = SwapH(loggers[hist[c].parent].h)
               /\ Target(c) = Target(hist[c].parent)

\* a child derived while its parent led to sink 1 now leads to sink 2
C4_Witness ==
    \E c \in LoggerIds :
        /\ c # root
        /\ ~hist[c].ownSet
        /\ hist[c].atDerive = Sink(1)
        /\ Target(c) = Sink(2)

\* C5: a derived logger's context is its parent's context followed by the
\* normalized arguments of the derivation, and a record's context is the
\* writing logger's context followed by the normalized call-site context.
C5_ContextInheritance ==
    /\ \A c \in LoggerIds :
          c # root =>
            \E ord \in IterOrders(hist[c].args) :
                loggers[c].ctx = loggers[hist[c].parent].ctx \o normalize(hist[c].args, ord)
    /\ \A t \in Threads :
          th[t].handed /\ th[t].entry \notin Formatted =>
            \E ord \in IterOrders(th[t].args) :
                th[t].rec.Ctx = loggers[th[t].l].ctx \o normalize(th[t].args, ord)

\* derive(a,1).derive(b,2) from the root: the grandchild holds [a,1,b,2] and has
\* written a record with an odd call-site context
C5_Witness ==
    \E t \in Threads :
        /\ th[t].pc = "done"
        /\ th[t].l # root
        /\ hist[th[t].l].parent # root
        /\ loggers[th[t].l].ctx = <<Str("a"), Str("1"), Str("b"), Str("2")>>
        /\ th[t].args = <<Str("k")>>
        /\ Len(th[t].rec.Ctx) = 8

\* C6: normalizing an odd-length list of length 2n+1 (not a sole Ctx) keeps the
\* 2n+1 elements and appends nil, the error key and the diagnostic string; an
\* even-length list is returned unchanged.
C6_OddRecovery ==
    normPc = "out" =>
        LET n == Len(normIn)
        IN  /\ n % 2 = 1 /\ ~(n = 1 /\ isCtx(normIn[1])) =>
                  /\ Len(normOut) = n + 3
                  /\ SubSeq(normOut, 1, n) = normIn
                  /\ normOut[n + 1] = Nil
                  /\ normOut[n + 2] = Str("LOG15_ERROR")
                  /\ normOut[n + 3] = Str("Normalized odd number of arguments by adding nil")
            /\ n % 2 = 0 => normOut = normIn

\* a list of three elements was normalized to six
C6_Witness ==
    /\ normPc = "out"
    /\ Len(normIn) = 3
    /\ Len(normOut) = 6
    /\ normOut[4] = Nil

\* C7: a sole Ctx argument with k entries is normalized to a list of length 2k
\* holding each entry once as an adjacent (key, value) pair, with no marker; a
\* Ctx among other arguments is left in place.
C7_MapExpansion ==
    normPc = "out" =>
        /\ Len(normIn) = 1 /\ isCtx(normIn[1]) =>
              LET m == normIn[1].m
                  k == Cardinality(DOMAIN m)
              IN  /\ Len(normOut) = 2 * k
                  /\ \A key \in DOMAIN m :
                        Cardinality({i \in 1..k : /\ normOut[2 * i - 1] = Str(key)
                                                  /\ normOut[2 * i] = Str(m[key])}) = 1
                  /\ \A i \in 1..Len(normOut) : normOut[i] # Str(errorKey)
        /\ Len(normIn) # 1 =>
              \A i \in 1..Len(normIn) : normOut[i] = normIn[i]

\* the map {a:1, b:2} was expanded with b visited first
C7_Witness ==
    /\ normPc = "out"
    /\ normIn = <<CtxVal(CtxAB)>>
    /\ normOut = <<Str("b"), Str("2"), Str("a"), Str("1")>>

\* C8: when a panic-equivalent call raises its panic, the sinks have received
\* exactly one record of the call, at Critical level; such a call never returns
\* normally, and until the panic is raised its next step is enabled.
C8_WriteBeforeAbort ==
    \A t \in Threads :
        /\ th[t].pc = "panicked" =>
              /\ th[t].entry \in PanicEntries
              /\ th[t].nDeliv = 1
              /\ th[t].rec.Lvl = LvlCrit
              /\ count[th[t].sink] >= 1
        /\ th[t].entry \in PanicEntries =>
              /\ th[t].pc # "done"
              /\ th[t].pc # "panicked" =>
                    ENABLED (SwapLog(t) \/ SinkLog(t) \/ PanicSleep(t) \/ PanicRaise(t))

\* Panic on a logger whose maxLevel is Crit has raised its panic after the
\* record was received
C8_Witness ==
    \E t \in Threads :
        /\ th[t].pc = "panicked"
        /\ th[t].entry = "Panic"
        /\ th[t].gateMax = LvlCrit
        /\ th[t].nDeliv = 1

\* C9: a write on a logger that SetLevel was called on is gated by the level
\* set last, and a record carries the level of the method called.
C9_SetLevelGates ==
    \A t \in Threads :
        th[t].pc # "idle" =>
            /\ th[t].lastSet # -1 =>
                  (th[t].handed <=> LevelOfEntry(th[t].entry) <= th[t].lastSet)
            /\ th[t].handed => th[t].rec.Lvl = LevelOfEntry(th[t].entry)

\* after two SetLevel calls, the last to Warn, Error has delivered a record at
\* Error level
C9_Witness ==
    \E t \in Threads :
        /\ th[t].pc = "done"
        /\ th[t].entry = "Error"
        /\ th[t].lastSet = LvlWarn
        /\ nAdmin = 2
        /\ th[t].nDeliv = 1
        /\ th[t].rec.Lvl = LvlError

\* C10: a logger made without a level override (New with lvl 0) has its
\* parent's level at the time, and one made with the override L has level L,
\* for every L, Crit (whose number is 0) included.
C10_LevelAtDerivation ==
    \A c \in LoggerIds :
        c # root /\ hist[c].lastSet = -1 =>
            /\ hist[c].lvlArg = 0 => loggers[c].maxLvl = hist[c].parentLvl
            /\ loggers[c].maxLvl = hist[c].lvlArg

\* C11: a step changes the maxLevel of at most one existing logger, the one
\* SetLevel was called on; a logger derived without a level override starts at
\* the level its parent has at that moment.
C11_SetLevelIsolation ==
    [][/\ \A i \in LoggerIds :
            loggers'[i].maxLvl # loggers[i].maxLvl =>
                /\ hist'[i].lastSet = loggers'[i].maxLvl
                /\ nAdmin' = nAdmin + 1
                /\ \A j \in LoggerIds \ {i} : loggers'[j].maxLvl = loggers[j].maxLvl
       /\ Len(loggers') > Len(loggers) =>
            LET c == Len(loggers')
            IN  hist'[c].via = "New" /\ hist'[c].lvlArg = 0
                    => loggers'[c].maxLvl = loggers[hist'[c].parent].maxLvl
      ]_vars

\* SetLevel(Warn) on a logger c that had a parent at Debug, a sibling and a
\* child: none of the three changed, and a child derived from c afterwards
\* started at Warn
C11_Witness ==
    \E c, sib, d, e \in LoggerIds \ {root} :
        /\ hist[c].parent = root /\ hist[sib].parent = root /\ c # sib
        /\ hist[d].parent = c /\ hist[e].parent = c /\ d # e
        /\ hist[c].lastSet = LvlWarn /\ loggers[c].maxLvl = LvlWarn
        /\ nAdmin = 1
        /\ loggers[root].maxLvl = LvlDebug
        /\ loggers[sib].maxLvl = LvlDebug
        /\ hist[d].parentLvl = LvlDebug /\ loggers[d].maxLvl = LvlDebug
        /\ hist[e].lvlArg = 0 /\ hist[e].parentLvl = LvlWarn
        /\ loggers[e].maxLvl = LvlWarn

\* the names LvlFromString is to recognize
RecognizedNames == {"crit", "eror", "error", "warn", "info", "dbug", "debug"}

\* C12: parsing the name of a level gives the level back without error; "error"
\* and "debug" parse to Error and Debug; a string that is no recognized name
\* fails to parse.
C12_LevelRoundTrip ==
    /\ conv.pc = "back" => conv.outLvl = conv.lvl /\ ~conv.outErr
    /\ conv.pc = "parsed" =>
          /\ conv.str = "error" => conv.outLvl = LvlError /\ ~conv.outErr
          /\ conv.str = "debug" => conv.outLvl = LvlDebug /\ ~conv.outErr
          /\ conv.str \notin RecognizedNames => conv.outErr
          /\ conv.str \in RecognizedNames => ~conv.outErr

\* Error was named "eror" and parsed back to Error
C12_Witness ==
    /\ conv.pc = "back"
    /\ conv.lvl = LvlError
    /\ conv.outStr = "eror"
    /\ conv.outLvl = LvlError

\* C13: when Log of the installed handler returns an error, the leveled call
\* goes on to return normally and never aborts, the step leaves every logger's
\* context, maxLevel and handler indirection as they were, and a call made
\* after a failed one is gated and handed to the handler as any other.
C13_FireAndForget ==
    [][\A t \in Threads :
          /\ th'[t].logErr /\ ~th[t].logErr =>
                /\ th'[t].pc = "ret"
                /\ loggers' = loggers
                /\ swap' = swap
          /\ th[t].logErr => th[t].pc \in {"ret", "done"} /\ th'[t].pc \in {"ret", "done"}
          /\ th'[t].afterFail /\ th'[t].lvl <= th'[t].gateMax => th'[t].handed
      ]_vars

\* a call whose handler failed has returned, and a later call was delivered
C13_Witness ==
    \E t, u \in Threads :
        /\ th[t].pc = "done" /\ th[t].logErr /\ th[t].entry = "Crit"
        /\ th[u].afterFail /\ th[u].pc = "done" /\ th[u].nDeliv = 1 /\ ~th[u].logErr

\* C14: a record produced by a formatted variant, method or package-level
\* function, has exactly the context of the logger it was written on, whatever
\* interpolation arguments the call was given.
C14_FormattedNoContext ==
    \A t \in Threads :
        th[t].handed /\ th[t].entry \in Formatted =>
            th[t].rec.Ctx = loggers[th[t].l].ctx

\* Debugf with one interpolation argument on a logger derived with a pair
C14_Witness ==
    \E t \in Threads :
        /\ th[t].handed /\ th[t].entry = "Debugf" /\ Len(th[t].args) = 1
        /\ th[t].l # root
        /\ loggers[th[t].l].ctx = <<Str("a"), Str("1")>>
        /\ th[t].rec.Ctx = <<Str("a"), Str("1")>>

\* C15: in every leveled call, through a method or a package-level function,
\* exactly one frame lies between the client and logger.write, and the call
\* site a record captures at depth 2 is the client's frame.
C15_UniformDepth ==
    \A t \in Threads :
        /\ th[t].pc # "idle" => th[t].stack = <<"client", th[t].entry>>
        /\ th[t].handed => th[t].rec.Call = "client"

\* the package-level Debug has captured the frame of its client
C15_Witness ==
    \E t \in Threads :
        /\ th[t].handed /\ th[t].entry = "pkg.Debug"
        /\ th[t].stack = <<"client", "pkg.Debug">>
        /\ th[t].rec.Call = "client"

\* logger j is c or was derived, directly or through others, from c
RECURSIVE InSubtree(_, _)
InSubtree(j, c) ==
    IF j = c THEN TRUE
    ELSE IF hist[j].parent = 0 THEN FALSE
    ELSE InSubtree(hist[j].parent, c)

\* this step is a SetHandler on logger c that installs another handler
SetHandlerOn(c) == Len(swap') = Len(swap) /\ swap'[loggers[c].h] # swap[loggers[c].h]

\* C16: SetHandler on a derived logger c leaves the handler that the
\* records of every logger outside the subtree of c are delivered to unchanged.
C16_SwapIsLocal ==
    [][\A c \in LoggerIds \ {root} :
          SetHandlerOn(c) =>
              \A j \in LoggerIds : ~InSubtree(j, c) => Target(j)' = Target(j)
      ]_vars

\* C17: the stored context of every logger and the context of every record
\* handed to a handler has even length, whatever argument lists (even, odd, a
\* single map) the derive and write calls were given.
C17_EvenLength ==
    /\ \A i \in LoggerIds : Len(loggers[i].ctx) % 2 = 0
    /\ \A t \in Threads : th[t].handed => Len(th[t].rec.Ctx) % 2 = 0

\* a logger derived with a lone key wrote a record with a lone key: both
\* lists were completed by nil, the error key and the message
C17_Witness ==
    \E t \in Threads :
        /\ th[t].handed /\ th[t].entry = "Debug" /\ Len(th[t].args) = 1
        /\ hist[th[t].l].args = <<Str("k")>>
        /\ Len(loggers[th[t].l].ctx) = 4
        /\ Len(th[t].rec.Ctx) = 8

\* C18: after any sequence of New, SetHandler and GetHandler calls that install
\* concrete sinks or values GetHandler returned, no indirection delegates,
\* directly or through others, to itself: the delegation chain of every logger,
\* and the rest of the chain of every write in progress, ends at a concrete sink.
C18_WriteTerminates ==
    /\ \A i \in LoggerIds : Target(i).kind = "sink"
    /\ \A t \in Threads : th[t].pc = "log" => Follow(th[t].at, Len(swap)).kind = "sink"

\* C19: no step changes the stored context of an existing logger or the array
\* that holds it; the context of every logger is held in an array of its own,
\* and so is the context of every record.
C19_ContextImmutable ==
    [][/\ \A i \in LoggerIds :
            /\ loggers'[i].ctx = loggers[i].ctx
            /\ loggers'[i].ctxArr = loggers[i].ctxArr
       /\ \A i, j \in DOMAIN loggers' : i # j => loggers'[i].ctxArr # loggers'[j].ctxArr
       /\ \A t \in Threads : th'[t].handed =>
            \A i \in DOMAIN loggers' : th'[t].rec.CtxArr # loggers'[i].ctxArr
      ]_vars

\* a logger with a pair of context, a logger derived from it with no further
\* context, and a record written on it with none: equal contexts, three arrays
C19_Witness ==
    \E c, d \in LoggerIds, t \in Threads :
        /\ hist[d].parent = c /\ hist[d].args = <<>>
        /\ loggers[c].ctx = <<Str("a"), Str("1")>>
        /\ loggers[d].ctx = loggers[c].ctx
        /\ loggers[d].ctxArr # loggers[c].ctxArr
        /\ th[t].handed /\ th[t].l = c /\ th[t].args = <<>>
        /\ th[t].rec.Ctx = loggers[c].ctx
        /\ th[t].rec.CtxArr # loggers[c].ctxArr

====
